---- MODULE Spec2Model ----
(***************************************************************************)
(* Review scheduling and session progression of the flashcard game:        *)
(* the SM-2 style scheduler, the card selectors, the session summary, the  *)
(* blind-tier pass rule, and the play page with its deck player.           *)
(*                                                                         *)
(* Number representation.  The code computes in IEEE-754 doubles; the      *)
(* model computes in exact fixed point:                                    *)
(*   ease             hundredths      (2.5 is 250, 1.3 is 130, 3.0 is 300) *)
(*   threshold        hundredths      (0.70 is 70)                         *)
(*   pointMultiplier  tenths          (1.5 is 15)                          *)
(*   timestamps       ticks of ClockMs milliseconds                        *)
(* Every quantity the code rounds lies on a grid of 1/10000, so a double   *)
(* differs from the exact value only in whether an exact half rounds up    *)
(* or down; applyRating takes that outcome as the parameter tie.           *)
(***************************************************************************)
EXTENDS Integers, Sequences, FiniteSets

\* ---------------------------------------------------------------- bounds
MaxReviews == 7
MaxNow == 1
MaxSelReviews == 2
MaxCount == 3
RandLevels == 4
MaxResults == 8

\* ------------------------------------------------------------- constants
DEFAULT_EASE == 250
MIN_EASE == 130
DAY_MS == 86400000
\* resolution of the model clock: one tick of `now` is one day
ClockMs == DAY_MS
Day == DAY_MS \div ClockMs

Cards == {"c1", "c2", "c3"}
Ratings == {1, 2, 3, 4}
\* the card the scheduler runs are made on
SchedCard == "c1"

VARIABLES
  now,        \* Date.now(), in clock ticks
  store,      \* localStorage["study-doc:card-stats"]: card id -> CardStats
  applied,    \* history: the ratings applied to each card, oldest first
  call,       \* history: the last applyRating call (input, rating, result)
  pool,       \* the array handed to a selector: allCards or deck.cards
  wsPc,       \* weightedSelect: "idle", "loop" (in the while loop), "done"
  wsArgs,     \* weightedSelect: the arguments as they were at the call
  weights,    \* weightedSelect: weights[i] of pool[i]
  totalWeight, \* weightedSelect: the sum of the weights
  selected,   \* weightedSelect: the cards chosen so far
  used,       \* weightedSelect: the pool positions chosen so far
  wsResult,   \* weightedSelect: the returned array
  unitCards,  \* the play page's unitCards: the output of sortForUnitMode
  results,    \* the deck player's results: one {cardId, rating} per card
  summary,    \* the record sessionSummary(results) returned
  blindIndex, \* the play page's blindIndex: the current tier, from 0
  outcome,    \* handleBlindComplete: summary, passed and earned of the tier
  mounted,    \* the play page is on screen
  mode,       \* the page's query parameter mode: "unit" or "random"
  activeRepo, \* RepoProvider's activeRepo, "none" for null
  phase,      \* the play page's phase
  error,      \* the play page's error message, "" for null
  deck,       \* the play page's deck, as its cards; << >> for null
  allCards,   \* the play page's allCards: the pool of the random mode
  blindCards, \* the play page's blindCards: the card set of the tier
  score,      \* the play page's score
  roundPassed, \* the play page's roundPassed
  sessionResults, \* the play page's sessionResults
  loads,      \* the calls of load that wait for the network
  loadCalls,  \* history: how often load was called
  index,      \* the deck player's index
  flipped,    \* the deck player's flipped
  animating,  \* the deck player's animating
  timers,     \* the pending setTimeout callbacks of handleRate, oldest first
  roundEarned, \* history: the earned of the tiers completed in this round
  tabs        \* the deck players of the sessions that share the store

schedVars == <<now, store, applied, call>>
wsVars == <<wsPc, wsArgs, weights, totalWeight, selected, used, wsResult>>
selVars == <<pool, wsPc, wsArgs, weights, totalWeight, selected, used,
             wsResult, unitCards>>
tierVars == <<results, summary, blindIndex, outcome, tabs>>
playerVars == <<index, flipped, animating, timers>>
pageVars == <<mounted, mode, activeRepo, phase, error, deck, allCards,
              blindCards, score, roundPassed, sessionResults, loads,
              loadCalls, index, flipped, animating, timers, roundEarned>>
vars == <<now, store, applied, call, pool, wsPc, wsArgs, weights,
          totalWeight, selected, used, wsResult, unitCards, results,
          summary, blindIndex, outcome, mounted, mode, activeRepo, phase,
          error, deck, allCards, blindCards, score, roundPassed,
          sessionResults, loads, loadCalls, index, flipped, animating,
          timers, roundEarned, tabs>>

\* ------------------------------------------------------------ arithmetic
Max(a, b) == IF a >= b THEN a ELSE b
Min(a, b) == IF a <= b THEN a ELSE b

\* Math.round(num / den) for num >= 0, den > 0.  An exact half rounds up
\* when tie = 1 (the double is the exact half or above it) and down when
\* tie = 0 (the double fell just below the half).
MathRound(num, den, tie) ==
  LET q == num \div den
      r == num % den
  IN  IF 2 * r > den THEN q + 1
      ELSE IF 2 * r < den THEN q
      ELSE q + tie

\* --------------------------------------------------------------- storage
\* getCardStats: the stored record, or the default of an unseen card
\* getCardStats without the stored record
getCardStats_forget(all, cardId, t) ==
  [id |-> cardId, ease |-> DEFAULT_EASE, interval |-> 1, due |-> t,
   reviews |-> 0, lapses |-> 0, lastRating |-> 0]

getCardStats(all, cardId, t) ==
  IF cardId \in DOMAIN all
    THEN all[cardId]
    ELSE [id |-> cardId, ease |-> DEFAULT_EASE, interval |-> 1, due |-> t,
          reviews |-> 0, lapses |-> 0, lastRating |-> 0]

\* saveCardStats writing the one record alone
saveCardStats_replaceAll(all, stats) == [c \in {stats.id} |-> stats]

\* saveCardStats: all[stats.id] = stats, the other entries as they were
saveCardStats(all, stats) ==
  [c \in DOMAIN all \cup {stats.id} |->
     IF c = stats.id THEN stats ELSE all[c]]

\* ------------------------------------------------------------- scheduler
\* applyRating is the switch over the rating; each case of the switch is
\* one operator, taking the input record stats and the copy next in which
\* reviews and lastRating are already set.

\* case 1 with the lapse count left as it was
applyRating_again_keepLapses(stats, next, t) ==
  [next EXCEPT !.ease = Max(MIN_EASE, stats.ease - 20),
               !.interval = 1,
               !.due = t + Day]

\* case 1 without the reset of the interval
applyRating_again_keepInterval(stats, next, t) ==
  [next EXCEPT !.lapses = next.lapses + 1,
               !.ease = Max(MIN_EASE, stats.ease - 20),
               !.due = t + Day]

\* case 1: Again
applyRating_again(stats, next, t) ==
  [next EXCEPT !.lapses = next.lapses + 1,
               !.ease = Max(MIN_EASE, stats.ease - 20),
               !.interval = 1,
               !.due = t + Day]

\* case 2 with the ease raised instead of lowered
applyRating_hard_raiseEase(stats, next, t, tie) ==
  LET newInterval == Max(1, MathRound(stats.interval * 12, 10, tie))
  IN  [next EXCEPT !.ease = Max(MIN_EASE, stats.ease + 15),
                   !.interval = newInterval,
                   !.due = t + newInterval * Day]

\* case 2: Hard
applyRating_hard(stats, next, t, tie) ==
  LET newInterval == Max(1, MathRound(stats.interval * 12, 10, tie))
  IN  [next EXCEPT !.ease = Max(MIN_EASE, stats.ease - 15),
                   !.interval = newInterval,
                   !.due = t + newInterval * Day]

\* case 3 choosing the interval by the review count after the increment
applyRating_good_countAfter(stats, next, t, tie) ==
  LET newInterval ==
        IF next.reviews <= 1 THEN 1
        ELSE IF next.reviews = 2 THEN 6
        ELSE MathRound(stats.interval * stats.ease, 100, tie)
  IN  [next EXCEPT !.interval = newInterval,
                   !.due = t + newInterval * Day]

\* case 3: Good (ease unchanged)
applyRating_good(stats, next, t, tie) ==
  LET newInterval ==
        IF stats.reviews <= 1 THEN 1
        ELSE IF stats.reviews = 2 THEN 6
        ELSE MathRound(stats.interval * stats.ease, 100, tie)
  IN  [next EXCEPT !.interval = newInterval,
                   !.due = t + newInterval * Day]

\* case 4 without the upper clamp of the ease
applyRating_easy_noClamp(stats, next, t, tie) ==
  LET newInterval ==
        IF stats.reviews <= 1 THEN 4
        ELSE MathRound(stats.interval * stats.ease * 130, 10000, tie)
  IN  [next EXCEPT !.ease = stats.ease + 15,
                   !.interval = newInterval,
                   !.due = t + newInterval * Day]

\* case 4: Easy
applyRating_easy(stats, next, t, tie) ==
  LET newInterval ==
        IF stats.reviews <= 1 THEN 4
        ELSE MathRound(stats.interval * stats.ease * 130, 10000, tie)
  IN  [next EXCEPT !.ease = Min(300, stats.ease + 15),
                   !.interval = newInterval,
                   !.due = t + newInterval * Day]

applyRating(stats, rating, t, tie) ==
  LET next == [stats EXCEPT !.reviews = stats.reviews + 1,
                            !.lastRating = rating]
  IN  CASE rating = 1 -> applyRating_again(stats, next, t)
        [] rating = 2 -> applyRating_hard(stats, next, t, tie)
        [] rating = 3 -> applyRating_good(stats, next, t, tie)
        [] rating = 4 -> applyRating_easy(stats, next, t, tie)

\* -------------------------------------------------------------- selector
\* cardWeight: easeFactor * lapseFactor * overdueFactor as the exact
\* fraction num / den: (1 / ease) * (1 + lapses * 0.4) * (1.5 or 1.0), with
\* ease in hundredths and the other two factors in tenths
cardWeight(stats, t) ==
  LET overdueFactor == IF stats.due <= t THEN 15 ELSE 10
      lapseFactor == 10 + stats.lapses * 4
  IN  [num |-> lapseFactor * overdueFactor, den |-> stats.ease]

RECURSIVE ProductOfDens(_)
ProductOfDens(ws) ==
  IF ws = << >> THEN 1 ELSE Head(ws).den * ProductOfDens(Tail(ws))

\* pool.map(c => cardWeight(allStats[c.id] ?? default)).  The weights of one
\* call are kept in a common unit, 1 / (product of the denominators), in
\* which they are integers; the loop only compares sums of weights with a
\* fraction of their total, which the unit does not change.
poolWeights(p, all, t) ==
  LET fr == [i \in 1..Len(p) |-> cardWeight(getCardStats(all, p[i], t), t)]
      unit == ProductOfDens(fr)
  IN  [i \in 1..Len(p) |-> fr[i].num * (unit \div fr[i].den)]

RECURSIVE SumSeq(_)
\* weights.reduce((sum, w) => sum + w, 0)
SumSeq(ws) == IF ws = << >> THEN 0 ELSE Head(ws) + SumSeq(Tail(ws))

\* the for loop of one draw ending at the first used position
RECURSIVE walk_stopAtUsed(_, _, _, _)
walk_stopAtUsed(i, rand, ws, us) ==
  IF i > Len(ws) THEN 0
  ELSE IF i \in us THEN 0
  ELSE LET r == rand - RandLevels * ws[i]
       IN  IF r <= 0 THEN i ELSE walk_stopAtUsed(i + 1, r, ws, us)

\* the for loop of one draw with the test of `used` left out
RECURSIVE walk_noSkip(_, _, _, _)
walk_noSkip(i, rand, ws, us) ==
  IF i > Len(ws) THEN 0
  ELSE LET r == rand - RandLevels * ws[i]
       IN  IF r <= 0 THEN i ELSE walk_noSkip(i + 1, r, ws, us)

\* the for loop of one draw, from position i on: skip the used positions,
\* subtract the weight, stop at the first position where rand <= 0.  The
\* value is the position chosen, 0 when the loop ends without a choice.
\* rand and the weights subtracted from it are scaled by RandLevels.
RECURSIVE walk(_, _, _, _)
walk(i, rand, ws, us) ==
  IF i > Len(ws) THEN 0
  ELSE IF i \in us THEN walk(i + 1, rand, ws, us)
  ELSE LET r == rand - RandLevels * ws[i]
       IN  IF r <= 0 THEN i ELSE walk(i + 1, r, ws, us)

\* every way to put x into the sequence t
InsertAnywhere(t, x) ==
  {SubSeq(t, 1, k) \o <<x>> \o SubSeq(t, k + 1, Len(t)) : k \in 0..Len(t)}

\* the outcomes of array.sort(() => Math.random() - 0.5): the comparator
\* answers at random, so an insertion may end at any position
RECURSIVE SortRandom(_)
SortRandom(s) ==
  IF Len(s) <= 1 THEN {s}
  ELSE UNION {InsertAnywhere(t, s[Len(s)]) :
                t \in SortRandom(SubSeq(s, 1, Len(s) - 1))}

\* the shuffle branch sorting the caller's array itself
weightedSelect_all_inPlace(p) ==
  {[result |-> q, pool |-> q] : q \in SortRandom(p)}

\* weightedSelect when pool.length <= count: a shuffled copy of the pool;
\* result is the returned array, pool the caller's array after the call
weightedSelect_all(p) ==
  {[result |-> q, pool |-> p] : q \in SortRandom(p)}

\* the comparator with the unseen cards put first
sortForUnitMode_compare_dueOnly(a, b, all, t) ==
  IF a \notin DOMAIN all /\ b \notin DOMAIN all THEN 0
  ELSE IF a \notin DOMAIN all THEN 1
  ELSE IF b \notin DOMAIN all THEN -1
  ELSE LET aDue == IF all[a].due <= t THEN 0 ELSE all[a].due
           bDue == IF all[b].due <= t THEN 0 ELSE all[b].due
       IN  aDue - bDue

sortForUnitMode_compare_unseenFirst(a, b, all, t) ==
  IF a \notin DOMAIN all /\ b \notin DOMAIN all THEN 0
  ELSE IF a \notin DOMAIN all THEN -1
  ELSE IF b \notin DOMAIN all THEN 1
  ELSE LET aDue == IF all[a].due <= t THEN 0 ELSE all[a].due
           bDue == IF all[b].due <= t THEN 0 ELSE all[b].due
       IN  IF aDue # bDue THEN aDue - bDue
           ELSE all[a].ease - all[b].ease

\* the comparator of sortForUnitMode
sortForUnitMode_compare(a, b, all, t) ==
  IF a \notin DOMAIN all /\ b \notin DOMAIN all THEN 0
  ELSE IF a \notin DOMAIN all THEN 1
  ELSE IF b \notin DOMAIN all THEN -1
  ELSE LET aDue == IF all[a].due <= t THEN 0 ELSE all[a].due
           bDue == IF all[b].due <= t THEN 0 ELSE all[b].due
       IN  IF aDue # bDue THEN aDue - bDue
           ELSE all[a].ease - all[b].ease

\* Array.prototype.sort with a consistent comparator is a stable sort:
\* x goes behind the last element that does not compare greater than x
RECURSIVE InsertSorted(_, _, _, _)
InsertSorted(s, x, all, t) ==
  IF s = << >> THEN <<x>>
  ELSE IF sortForUnitMode_compare(s[Len(s)], x, all, t) > 0
    THEN Append(InsertSorted(SubSeq(s, 1, Len(s) - 1), x, all, t), s[Len(s)])
    ELSE Append(s, x)

RECURSIVE sortForUnitMode(_, _, _)
\* [...cards].sort(compare)
sortForUnitMode(cards, all, t) ==
  IF cards = << >> THEN << >>
  ELSE InsertSorted(sortForUnitMode(SubSeq(cards, 1, Len(cards) - 1), all, t),
                    cards[Len(cards)], all, t)

\* --------------------------------------------------------------- summary
\* results.filter((r) => r.rating === x).length
CountRating(rs, x) == Cardinality({i \in 1..Len(rs) : rs[i].rating = x})

\* sessionSummary with Math.floor in the place of Math.round
sessionSummary_floor(rs) ==
  LET again == CountRating(rs, 1)
      hard == CountRating(rs, 2)
      good == CountRating(rs, 3)
      easy == CountRating(rs, 4)
      total == Len(rs)
      correct == good + easy
      pct == IF total > 0 THEN (correct * 100) \div total ELSE 0
  IN  [again |-> again, hard |-> hard, good |-> good, easy |-> easy,
       total |-> total, correct |-> correct, pct |-> pct]

\* sessionSummary.  Math.round((correct / total) * 100): an exact half
\* needs total to hold the factor 8 of 200 (the reduced denominator is 8,
\* 40 or 200); below 40 results the quotient is then a multiple of 1/8, the
\* double product is exact and Math.round rounds it up
sessionSummary(rs) ==
  LET again == CountRating(rs, 1)
      hard == CountRating(rs, 2)
      good == CountRating(rs, 3)
      easy == CountRating(rs, 4)
      total == Len(rs)
      correct == good + easy
      pct == IF total > 0 THEN MathRound(correct * 100, total, 1) ELSE 0
  IN  [again |-> again, hard |-> hard, good |-> good, easy |-> easy,
       total |-> total, correct |-> correct, pct |-> pct]

\* ------------------------------------------------------------ blind tiers
\* BLINDS: threshold in hundredths, pointMultiplier in tenths
BLINDS ==
  << [name |-> "small", cardCount |-> 10, threshold |-> 70,
      pointMultiplier |-> 10],
     [name |-> "big", cardCount |-> 20, threshold |-> 75,
      pointMultiplier |-> 15],
     [name |-> "boss", cardCount |-> 30, threshold |-> 80,
      pointMultiplier |-> 20] >>

\* the pass rule over the tier's configured cardCount
blindOutcome_overCardCount(bi, rs) ==
  LET blind == BLINDS[bi + 1]
      s == sessionSummary(rs)
      passed == s.correct * 100 >= blind.threshold * blind.cardCount
      earned == MathRound(s.correct * 100 * blind.pointMultiplier, 10, 1)
  IN  [summary |-> s, passed |-> passed, earned |-> earned]

\* the pass rule with > in the place of >=
blindOutcome_strict(bi, rs) ==
  LET blind == BLINDS[bi + 1]
      s == sessionSummary(rs)
      passed == s.pct > blind.threshold
      earned == MathRound(s.correct * 100 * blind.pointMultiplier, 10, 1)
  IN  [summary |-> s, passed |-> passed, earned |-> earned]

\* handleBlindComplete, what it computes from the tier's results: the
\* summary, passed = summary.pct / 100 >= blind.threshold (both sides in
\* hundredths here) and earned
blindOutcome(bi, rs) ==
  LET blind == BLINDS[bi + 1]
      s == sessionSummary(rs)
      passed == s.pct >= blind.threshold
      earned == MathRound(s.correct * 100 * blind.pointMultiplier, 10, 1)
  IN  [summary |-> s, passed |-> passed, earned |-> earned]

\* --------------------------------------------------------------- actions
\* handleRate, its scheduling part: read the card's stats, apply the
\* rating, save the result
Rate(c, rating, tie) ==
  LET cardStats == getCardStats(store, c, now)
      updated == applyRating(cardStats, rating, now, tie)
  IN  /\ store' = saveCardStats(store, updated)
      /\ applied' = [applied EXCEPT ![c] = Append(@, rating)]
      /\ call' = [stats |-> cardStats, rating |-> rating, now |-> now,
                  result |-> updated]

\* localStorage can throw in getItem (or JSON.parse can) and in setItem,
\* each call on its own: loadAllStats then returns {} and saveAllStats
\* leaves the stored blob as it was.  A fault names the calls that fail in
\* one handleRate: the read of getCardStats, the read of saveCardStats and
\* the write of saveCardStats.
Faults == [get : BOOLEAN, read : BOOLEAN, write : BOOLEAN]
NoFault == [get |-> FALSE, read |-> FALSE, write |-> FALSE]

loadAllStats(all, fails) == IF fails THEN << >> ELSE all
saveAllStats(all, stats, fails) == IF fails THEN all ELSE stats

\* Rate with the storage calls failing as fault says
RateUnder(c, rating, tie, fault) ==
  LET cardStats == getCardStats(loadAllStats(store, fault.get), c, now)
      updated == applyRating(cardStats, rating, now, tie)
  IN  /\ store' = saveAllStats(store,
                     saveCardStats(loadAllStats(store, fault.read), updated),
                     fault.write)
      /\ applied' = [applied EXCEPT ![c] = Append(@, rating)]
      /\ call' = [stats |-> cardStats, rating |-> rating, now |-> now,
                  result |-> updated]

\* time passes
Tick ==
  /\ now < MaxNow
  /\ now' = now + 1

NoCall == [rating |-> 0]

NoArgs == [count |-> 0, pool |-> << >>]
NoSummary == [total |-> -1]
NoOutcome == [earned |-> -1]

\* nothing stored, no selector running, no card rated
StartOfDay ==
  /\ now = 0
  /\ store = << >>
  /\ applied = [c \in Cards |-> << >>]
  /\ call = NoCall
  /\ results = << >>
  /\ summary = NoSummary
  /\ outcome = NoOutcome
  /\ wsPc = "idle"
  /\ wsArgs = NoArgs
  /\ weights = << >>
  /\ totalWeight = 0
  /\ selected = << >>
  /\ used = {}
  /\ wsResult = << >>
  /\ unitCards = << >>

\* the useState initial values of the play page and of the deck player
InitialPageState ==
  /\ phase = "loading"
  /\ error = ""
  /\ deck = << >>
  /\ allCards = << >>
  /\ blindCards = << >>
  /\ score = 0
  /\ roundPassed = FALSE
  /\ sessionResults = << >>
  /\ index = 0
  /\ flipped = FALSE
  /\ animating = FALSE

\* the play page is not on screen
PageClosed ==
  /\ mounted = FALSE
  /\ mode = "unit"
  /\ activeRepo = "none"
  /\ InitialPageState
  /\ loads = 0
  /\ loadCalls = 0
  /\ timers = << >>
  /\ roundEarned = << >>
  /\ tabs = << >>

SchedInit ==
  /\ StartOfDay
  /\ PageClosed
  /\ pool = << >>
  /\ blindIndex = 0

SchedRate ==
  /\ Len(applied[SchedCard]) < MaxReviews
  /\ \E rating \in Ratings, tie \in {0, 1} : Rate(SchedCard, rating, tie)
  /\ UNCHANGED now
  /\ UNCHANGED selVars
  /\ UNCHANGED tierVars
  /\ UNCHANGED pageVars

SchedTick ==
  /\ Tick
  /\ UNCHANGED <<store, applied, call>>
  /\ UNCHANGED selVars
  /\ UNCHANGED tierVars
  /\ UNCHANGED pageVars

SchedNext == SchedRate \/ SchedTick

SchedSpec == SchedInit /\ [][SchedNext]_vars

\* ------------------------------------------------------ selector actions
\* the arrays of distinct cards, the empty one included
RECURSIVE SeqsOver(_)
SeqsOver(S) ==
  {<< >>} \cup UNION {{Append(q, c) : q \in SeqsOver(S \ {c})} : c \in S}

Pools == SeqsOver(Cards)

TotalReviews == Len(applied["c1"]) + Len(applied["c2"]) + Len(applied["c3"])

SelInit ==
  /\ StartOfDay
  /\ PageClosed
  /\ pool \in Pools
  /\ blindIndex = 0

\* a card is rated before the selector runs
SelRate ==
  /\ wsPc = "idle"
  /\ unitCards = << >>
  /\ TotalReviews < MaxSelReviews
  /\ \E c \in Cards, rating \in Ratings, tie \in {0, 1} : Rate(c, rating, tie)
  /\ UNCHANGED now
  /\ UNCHANGED selVars
  /\ UNCHANGED tierVars
  /\ UNCHANGED pageVars

SelTick ==
  /\ wsPc = "idle"
  /\ unitCards = << >>
  /\ Tick
  /\ UNCHANGED <<store, applied, call>>
  /\ UNCHANGED selVars
  /\ UNCHANGED tierVars
  /\ UNCHANGED pageVars

\* weightedSelect(pool, count), up to the while loop
WSCall(count) ==
  /\ wsPc = "idle"
  /\ unitCards = << >>
  /\ wsArgs' = [count |-> count, pool |-> pool]
  /\ \/ /\ Len(pool) = 0
        /\ wsResult' = << >>
        /\ wsPc' = "done"
        /\ UNCHANGED <<pool, weights, totalWeight, selected, used>>
     \/ /\ Len(pool) # 0
        /\ Len(pool) <= count
        /\ \E out \in weightedSelect_all(pool) :
             /\ wsResult' = out.result
             /\ pool' = out.pool
        /\ wsPc' = "done"
        /\ UNCHANGED <<weights, totalWeight, selected, used>>
     \/ /\ Len(pool) # 0
        /\ Len(pool) > count
        /\ weights' = poolWeights(pool, store, now)
        /\ totalWeight' = SumSeq(poolWeights(pool, store, now))
        /\ selected' = << >>
        /\ used' = {}
        /\ wsPc' = "loop"
        /\ UNCHANGED <<pool, wsResult>>
  /\ UNCHANGED <<now, store, applied, call, unitCards>>
  /\ UNCHANGED tierVars
  /\ UNCHANGED pageVars

\* one iteration of the while loop: Math.random() is level / RandLevels
WSDraw(level) ==
  /\ wsPc = "loop"
  /\ Len(selected) < wsArgs.count
  /\ Cardinality(used) < Len(pool)
  /\ LET i == walk(1, level * totalWeight, weights, used)
     IN  IF i = 0
           THEN UNCHANGED <<selected, used>>
           ELSE /\ selected' = Append(selected, pool[i])
                /\ used' = used \cup {i}
  /\ UNCHANGED <<now, store, applied, call, pool, wsPc, wsArgs, weights,
                 totalWeight, wsResult, unitCards>>
  /\ UNCHANGED tierVars
  /\ UNCHANGED pageVars

\* the while condition fails: return selected
WSReturn ==
  /\ wsPc = "loop"
  /\ ~ (Len(selected) < wsArgs.count /\ Cardinality(used) < Len(pool))
  /\ wsResult' = selected
  /\ wsPc' = "done"
  /\ UNCHANGED <<now, store, applied, call, pool, wsArgs, weights,
                 totalWeight, selected, used, unitCards>>
  /\ UNCHANGED tierVars
  /\ UNCHANGED pageVars

\* setUnitCards(sortForUnitMode(deck.cards)); a deck has at least one card
SortUnit ==
  /\ wsPc = "idle"
  /\ unitCards = << >>
  /\ Len(pool) > 0
  /\ unitCards' = sortForUnitMode(pool, store, now)
  /\ UNCHANGED <<now, store, applied, call, pool>>
  /\ UNCHANGED wsVars
  /\ UNCHANGED tierVars
  /\ UNCHANGED pageVars

SelNext ==
  \/ SelRate
  \/ SelTick
  \/ \E count \in 1..MaxCount : WSCall(count)
  \/ \E level \in 0..(RandLevels - 1) : WSDraw(level)
  \/ WSReturn
  \/ SortUnit

SelSpec == SelInit /\ [][SelNext]_vars

\* ------------------------------------------------------- summary actions
SumInit ==
  /\ StartOfDay
  /\ PageClosed
  /\ pool = << >>
  /\ blindIndex = 0

\* the deck player appends the rating of the card at the next position;
\* the card is named by its position
SumRate(rating) ==
  /\ summary = NoSummary
  /\ Len(results) < MaxResults
  /\ results' = Append(results, [cardId |-> Len(results) + 1,
                                 rating |-> rating])
  /\ UNCHANGED <<summary, blindIndex, outcome, tabs>>
  /\ UNCHANGED schedVars
  /\ UNCHANGED selVars
  /\ UNCHANGED pageVars

\* sessionSummary(results)
Summarise ==
  /\ summary = NoSummary
  /\ summary' = sessionSummary(results)
  /\ UNCHANGED <<results, blindIndex, outcome, tabs>>
  /\ UNCHANGED schedVars
  /\ UNCHANGED selVars
  /\ UNCHANGED pageVars

SumNext ==
  \/ \E rating \in Ratings : SumRate(rating)
  \/ Summarise

SumSpec == SumInit /\ [][SumNext]_vars

\* ---------------------------------------------------------- tier actions
\* a tier of the ladder is being played
TierInit ==
  /\ StartOfDay
  /\ PageClosed
  /\ pool = << >>
  /\ blindIndex \in 0..(Len(BLINDS) - 1)

\* The tier's card set has min(cardCount, pool size) cards, so every length
\* from 1 to cardCount is one at which the last card is rated.  The summary
\* counts ratings and does not look at their order: the ratings arrive in
\* non-decreasing order here, one list for each multiset of ratings.
TierRate(rating) ==
  /\ outcome = NoOutcome
  /\ Len(results) < BLINDS[blindIndex + 1].cardCount
  /\ results # << >> => results[Len(results)].rating <= rating
  /\ results' = Append(results, [cardId |-> Len(results) + 1,
                                 rating |-> rating])
  /\ UNCHANGED <<summary, blindIndex, outcome, tabs>>
  /\ UNCHANGED schedVars
  /\ UNCHANGED selVars
  /\ UNCHANGED pageVars

\* the last card was rated: handleBlindComplete(results)
TierComplete ==
  /\ outcome = NoOutcome
  /\ Len(results) >= 1
  /\ outcome' = blindOutcome(blindIndex, results)
  /\ UNCHANGED <<results, summary, blindIndex, tabs>>
  /\ UNCHANGED schedVars
  /\ UNCHANGED selVars
  /\ UNCHANGED pageVars

TierNext ==
  \/ \E rating \in Ratings : TierRate(rating)
  \/ TierComplete

TierSpec == TierInit /\ [][TierNext]_vars

\* ------------------------------------------------------ session actions
\* The play page with its deck player, from the mount of the page on.  A
\* session lasts less than one clock tick: now does not change.
MaxRatings == 3
MaxLoads == 1

Modes == {"unit", "random"}
Repos == {"none", "r1"}
Phases == {"loading", "error", "blind-intro", "playing", "round-over",
           "results"}

\* the while loop of weightedSelect, every sequence of draws: a draw that
\* walks past the last weight chooses no card and the loop draws again
RECURSIVE weightedSelect_loop(_, _, _, _, _)
weightedSelect_loop(sel, us, p, count, ws) ==
  IF ~ (Len(sel) < count /\ Cardinality(us) < Len(p))
    THEN {sel}
    ELSE UNION {LET i == walk(1, level * SumSeq(ws), ws, us)
                IN  IF i = 0
                      THEN {}
                      ELSE weightedSelect_loop(Append(sel, p[i]),
                                               us \cup {i}, p, count, ws)
                : level \in 0..(RandLevels - 1)}

\* weightedSelect(pool, count): the arrays it can return
weightedSelect(p, count, all, t) ==
  IF Len(p) = 0 THEN {<< >>}
  ELSE IF Len(p) <= count THEN {out.result : out \in weightedSelect_all(p)}
  ELSE weightedSelect_loop(<< >>, {}, p, count, poolWeights(p, all, t))

\* What a load reads from the repository.  Random mode: the cards of all
\* deck files that load, some first cards of CardOrder, none when every
\* file fails.  Unit mode: the cards of the deck file, at least one: some
\* first cards of CardOrder, or the first two in the other order.
CardOrder == <<"c1", "c2", "c3">>
Combined == {SubSeq(CardOrder, 1, k) : k \in 0..Len(CardOrder)}
Decks == (Combined \ {<< >>}) \cup {<<CardOrder[2], CardOrder[1]>>}

\* The deck player is on screen in phase "playing" only.  It keeps its
\* state while it stays on screen and starts from its initial state when
\* it appears; the timeouts of a player that left the screen stay pending,
\* their state setters have no effect any more.
Stale(ts) == [i \in 1..Len(ts) |-> [ts[i] EXCEPT !.live = FALSE]]

Render(p, ts) ==
  /\ phase' = p
  /\ IF p = "playing" /\ phase = "playing"
       THEN /\ UNCHANGED <<index, flipped, animating, results>>
            /\ timers' = ts
       ELSE /\ index' = 0
            /\ flipped' = FALSE
            /\ animating' = FALSE
            /\ results' = << >>
            /\ timers' = Stale(ts)

\* the page appears: useState initial values, no effect has run yet
Init ==
  /\ StartOfDay
  /\ pool = << >>
  /\ blindIndex = 0
  /\ mounted = TRUE
  /\ mode \in Modes
  /\ activeRepo \in Repos
  /\ InitialPageState
  /\ loads = 0
  /\ loadCalls = 0
  /\ timers = << >>
  /\ roundEarned = << >>
  /\ tabs = << >>

\* load(), up to its first await
load_call(repo) ==
  /\ loadCalls' = loadCalls + 1
  /\ IF repo = "none"
       THEN /\ error' = "No repository configured."
            /\ Render("error", timers)
            /\ UNCHANGED loads
       ELSE /\ loads' = loads + 1
            /\ UNCHANGED <<error, phase, index, flipped, animating, results,
                           timers>>
  /\ UNCHANGED <<deck, unitCards, allCards, blindCards, blindIndex, score,
                 roundPassed, sessionResults, roundEarned>>

\* useEffect(() => load(), [load]) at the mount of the page
MountEffect ==
  /\ mounted
  /\ loadCalls = 0
  /\ load_call(activeRepo)
  /\ UNCHANGED <<mounted, mode, activeRepo>>
  /\ UNCHANGED <<schedVars, pool, wsVars, summary, outcome, tabs>>

\* RepoProvider sets activeRepo (its mount effect, setActiveRepo,
\* refreshRepo, removeRepo): load is a new function and the effect runs it
RepoChange(repo) ==
  /\ mounted
  /\ loadCalls >= 1
  /\ loadCalls <= MaxLoads
  /\ ~ (activeRepo = "none" /\ repo = "none")
  /\ activeRepo' = repo
  /\ load_call(repo)
  /\ UNCHANGED <<mounted, mode>>
  /\ UNCHANGED <<schedVars, pool, wsVars, summary, outcome, tabs>>

\* a call of load gets its answers from the network and runs to its end
LoadSettle ==
  /\ mounted
  /\ loads > 0
  /\ loads' = loads - 1
  /\ \/ /\ error' = "Failed to load flashcards"
        /\ Render("error", timers)
        /\ UNCHANGED <<deck, unitCards, allCards, blindCards, blindIndex,
                       roundEarned>>
     \/ /\ mode = "unit"
        /\ \E loadedDeck \in Decks :
             /\ deck' = loadedDeck
             /\ unitCards' = sortForUnitMode(loadedDeck, store, now)
        /\ Render("playing", timers)
        /\ UNCHANGED <<error, allCards, blindCards, blindIndex, roundEarned>>
     \/ /\ mode = "random"
        /\ \E combined \in Combined :
             /\ allCards' = combined
             /\ blindCards' \in weightedSelect(combined, BLINDS[1].cardCount,
                                               store, now)
        /\ blindIndex' = 0
        /\ roundEarned' = << >>
        /\ Render("blind-intro", timers)
        /\ UNCHANGED <<error, deck, unitCards>>
  /\ UNCHANGED <<mounted, mode, activeRepo, loadCalls, score, roundPassed,
                 sessionResults>>
  /\ UNCHANGED <<schedVars, pool, wsVars, summary, outcome, tabs>>

\* the cards the deck player was given
cards == IF mode = "unit" THEN unitCards ELSE blindCards

\* the Start button of the blind intro: setPhase("playing")
Start ==
  /\ mounted
  /\ phase = "blind-intro"
  /\ Render("playing", timers)
  /\ UNCHANGED <<mounted, mode, activeRepo, error, deck, allCards, blindCards,
                 score, roundPassed, sessionResults, loads, loadCalls,
                 roundEarned>>
  /\ UNCHANGED <<unitCards, blindIndex>>
  /\ UNCHANGED <<schedVars, pool, wsVars, summary, outcome, tabs>>

\* Space or Enter shows the answer; the card reports a flip through onFlip
Flip(f) ==
  /\ mounted
  /\ phase = "playing"
  /\ flipped # f
  /\ flipped' = f
  /\ UNCHANGED <<mounted, mode, activeRepo, phase, error, deck, allCards,
                 blindCards, score, roundPassed, sessionResults, loads,
                 loadCalls, index, animating, timers, roundEarned>>
  /\ UNCHANGED <<unitCards, blindIndex, results>>
  /\ UNCHANGED <<schedVars, pool, wsVars, summary, outcome, tabs>>

\* the test of the timeout callback, on the index and the cards of the
\* render the callback was made in
isLast_early(i, cs) == i + 2 >= Len(cs)
isLast(i, cs) == i + 1 >= Len(cs)

\* if (!flipped || animating) return
mayRate_flipped == flipped
mayRate == flipped /\ ~ animating

\* handleRate(rating), up to setTimeout.  The callback keeps what the
\* render it was made in saw: results, index, cards and onComplete, which
\* for a tier is handleBlindComplete with that render's blindIndex and
\* allCards.
handleRate(rating, tie, fault) ==
  /\ mounted
  /\ phase = "playing"
  /\ mayRate
  /\ index < Len(cards)
  /\ LET currentCard == cards[index + 1]
     IN  /\ RateUnder(currentCard, rating, tie, fault)
         /\ timers' = Append(timers,
              [live |-> TRUE,
               newResults |-> Append(results, [cardId |-> currentCard,
                                               rating |-> rating]),
               index |-> index,
               cards |-> cards,
               blindIndex |-> blindIndex,
               allCards |-> allCards])
  /\ animating' = TRUE
  /\ UNCHANGED <<mounted, mode, activeRepo, phase, error, deck, allCards,
                 blindCards, score, roundPassed, sessionResults, loads,
                 loadCalls, index, flipped, roundEarned>>
  /\ UNCHANGED <<now, unitCards, blindIndex, results>>
  /\ UNCHANGED <<pool, wsVars, summary, outcome, tabs>>

\* the timeout of a card that was not the last one: the next card
TimeoutNextCard ==
  /\ mounted
  /\ timers # << >>
  /\ ~ isLast(Head(timers).index, Head(timers).cards)
  /\ timers' = Tail(timers)
  /\ IF Head(timers).live
       THEN /\ results' = Head(timers).newResults
            /\ index' = index + 1
            /\ flipped' = FALSE
            /\ animating' = FALSE
       ELSE UNCHANGED <<results, index, flipped, animating>>
  /\ UNCHANGED <<mounted, mode, activeRepo, phase, error, deck, allCards,
                 blindCards, score, roundPassed, sessionResults, loads,
                 loadCalls, roundEarned>>
  /\ UNCHANGED <<unitCards, blindIndex>>
  /\ UNCHANGED <<schedVars, pool, wsVars, summary, outcome, tabs>>

\* handleUnitComplete(results)
handleUnitComplete(rs, ts) ==
  /\ sessionResults' = rs
  /\ Render("results", ts)
  /\ UNCHANGED <<blindCards, blindIndex, score, roundPassed, roundEarned>>

\* handleBlindComplete(results) of a render that saw tier bi and pool ac
handleBlindComplete(bi, ac, rs, ts) ==
  LET out == blindOutcome(bi, rs)
  IN  /\ score' = score + out.earned
      /\ sessionResults' = sessionResults \o rs
      /\ roundPassed' = out.passed
      /\ roundEarned' = Append(roundEarned, out.earned)
      /\ IF ~ out.passed \/ bi >= Len(BLINDS) - 1
           THEN /\ Render("round-over", ts)
                /\ UNCHANGED <<blindCards, blindIndex>>
           ELSE /\ blindCards' \in weightedSelect(ac, BLINDS[bi + 2].cardCount,
                                                  store, now)
                /\ blindIndex' = bi + 1
                /\ Render("blind-intro", ts)

\* the timeout of the last card: onComplete(newResults)
TimeoutComplete ==
  /\ mounted
  /\ timers # << >>
  /\ isLast(Head(timers).index, Head(timers).cards)
  /\ IF mode = "unit"
       THEN handleUnitComplete(Head(timers).newResults, Tail(timers))
       ELSE handleBlindComplete(Head(timers).blindIndex,
                                Head(timers).allCards,
                                Head(timers).newResults, Tail(timers))
  /\ UNCHANGED <<mounted, mode, activeRepo, error, deck, allCards, loads,
                 loadCalls, unitCards>>
  /\ UNCHANGED <<schedVars, pool, wsVars, summary, outcome, tabs>>

\* handleReplay, the branch of a unit deck
studyAgain ==
  /\ unitCards' = sortForUnitMode(deck, store, now)
  /\ sessionResults' = << >>
  /\ Render("playing", timers)
  /\ UNCHANGED <<score, blindIndex, blindCards, roundEarned>>

\* handleReplay, the other branch
newRound_keepScore ==
  /\ blindIndex' = 0
  /\ sessionResults' = << >>
  /\ blindCards' \in weightedSelect(allCards, BLINDS[1].cardCount, store, now)
  /\ roundEarned' = << >>
  /\ Render("blind-intro", timers)
  /\ UNCHANGED <<score, unitCards>>
newRound ==
  /\ score' = 0
  /\ blindIndex' = 0
  /\ sessionResults' = << >>
  /\ blindCards' \in weightedSelect(allCards, BLINDS[1].cardCount, store, now)
  /\ roundEarned' = << >>
  /\ Render("blind-intro", timers)
  /\ UNCHANGED unitCards

\* handleReplay: Study Again of the results, New Round of the round-over
handleReplay ==
  /\ mounted
  /\ phase \in {"results", "round-over"}
  /\ IF mode = "unit" /\ deck # << >> THEN studyAgain ELSE newRound
  /\ UNCHANGED <<mounted, mode, activeRepo, error, deck, allCards, roundPassed,
                 loads, loadCalls>>
  /\ UNCHANGED <<schedVars, pool, wsVars, summary, outcome, tabs>>

\* the page goes off screen (Back, a link of the sidebar): its state is
\* dropped and what its loads and timeouts set later has no effect
Leave ==
  /\ mounted
  /\ loadCalls >= 1
  /\ mounted' = FALSE
  /\ phase' = "loading"
  /\ error' = ""
  /\ deck' = << >>
  /\ allCards' = << >>
  /\ blindCards' = << >>
  /\ score' = 0
  /\ roundPassed' = FALSE
  /\ sessionResults' = << >>
  /\ index' = 0
  /\ flipped' = FALSE
  /\ animating' = FALSE
  /\ loads' = 0
  /\ timers' = << >>
  /\ unitCards' = << >>
  /\ blindIndex' = 0
  /\ results' = << >>
  /\ UNCHANGED <<mode, activeRepo, loadCalls, roundEarned>>
  /\ UNCHANGED <<schedVars, pool, wsVars, summary, outcome, tabs>>

Next ==
  \/ MountEffect
  \/ \E repo \in Repos : RepoChange(repo)
  \/ LoadSettle
  \/ Start
  \/ \E f \in BOOLEAN : Flip(f)
  \/ \E rating \in Ratings, tie \in {0, 1} :
       TotalReviews < MaxRatings /\ handleRate(rating, tie, NoFault)
  \/ TimeoutNextCard
  \/ TimeoutComplete
  \/ handleReplay
  \/ Leave

Spec == Init /\ [][Next]_vars

\* the session of one load, the storage calls of a rating can fail
FaultNext ==
  \/ MountEffect
  \/ LoadSettle
  \/ Start
  \/ \E f \in BOOLEAN : Flip(f)
  \/ \E rating \in Ratings, tie \in {0, 1}, fault \in Faults :
       TotalReviews < MaxRatings /\ handleRate(rating, tie, fault)
  \/ TimeoutNextCard
  \/ TimeoutComplete
  \/ handleReplay
  \/ Leave

FaultSpec == Init /\ [][FaultNext]_vars

\* ------------------------------------------------------ scheduler claims
CountOf(seq, x) == Cardinality({i \in 1..Len(seq) : seq[i] = x})

\* C1: starting from the default stats of an unseen card, after any sequence
\* of applyRating calls the record has 1.3 <= ease <= 3.0 and interval >= 1.
C1_EaseAndIntervalBounds ==
  /\ \A c \in DOMAIN store :
       /\ MIN_EASE <= store[c].ease
       /\ store[c].ease <= 300
       /\ store[c].interval >= 1
  /\ call.rating # 0 =>
       /\ MIN_EASE <= call.result.ease
       /\ call.result.ease <= 300
       /\ call.result.interval >= 1

\* an Easy rating arrived at an ease that the upper clamp had to cut
C1_Witness ==
  /\ call.rating = 4
  /\ call.stats.ease + 15 > 300
  /\ call.result.ease = 300
  /\ Len(applied[SchedCard]) >= 5

\* C2: on a never-reviewed card, Good three times in a row gives interval 1,
\* then 6, then round(6 x ease).
C2_ThreeGoods ==
  LET a == applied[SchedCard]
  IN  SchedCard \in DOMAIN store =>
        /\ a = <<3>> => store[SchedCard].interval = 1
        /\ a = <<3, 3>> => store[SchedCard].interval = 6
        /\ a = <<3, 3, 3>> =>
             store[SchedCard].interval
               = MathRound(6 * store[SchedCard].ease, 100, 1)

\* C3: rating Again returns interval 1, lapses + 1, ease = max(1.3, ease -
\* 0.20) and due = now + 1 day, for every input record.
C3_AgainResult ==
  call.rating = 1 =>
    /\ call.result.interval = 1
    /\ call.result.lapses = call.stats.lapses + 1
    /\ call.result.ease
         = (IF call.stats.ease - 20 < 130 THEN 130 ELSE call.stats.ease - 20)
    /\ call.result.due = call.now + Day

\* Again on a record whose interval had grown and whose ease the lower
\* clamp had to hold at 1.3
C3_Witness ==
  /\ call.rating = 1
  /\ call.stats.ease - 20 < 130
  /\ call.result.ease = 130
  /\ \E i \in 1..Len(applied[SchedCard]) : applied[SchedCard][i] # 1

\* C4: every applyRating call adds exactly 1 to reviews; lapses grows by 1
\* on rating 1 and is unchanged on ratings 2, 3, 4; so reviews is the number
\* of ratings applied to the card and lapses the number of rating-1 calls.
C4_ReviewAndLapseCounts ==
  /\ call.rating # 0 =>
       /\ call.result.reviews = call.stats.reviews + 1
       /\ call.result.lapses
            = call.stats.lapses + (IF call.rating = 1 THEN 1 ELSE 0)
  /\ \A c \in Cards :
       IF c \in DOMAIN store
         THEN /\ store[c].reviews = Len(applied[c])
              /\ store[c].lapses = CountOf(applied[c], 1)
         ELSE applied[c] = << >>

\* a card rated Again twice with other ratings in between
C4_Witness ==
  /\ SchedCard \in DOMAIN store
  /\ store[SchedCard].reviews = 5
  /\ store[SchedCard].lapses = 2
  /\ call.rating = 2

Range(seq) == {seq[i] : i \in 1..Len(seq)}

\* C6: weightedSelect(pool, count) with 0 < count < pool.length returns
\* exactly count cards, all of them cards of the pool, and no pool position
\* is chosen twice, whatever the random draws are.
C6_SelectReturnsCountDistinct ==
  /\ wsPc = "loop" =>
       /\ Cardinality(used) = Len(selected)
       /\ Range(selected) = {pool[i] : i \in used}
  /\ (wsPc = "done" /\ 0 < wsArgs.count /\ wsArgs.count < Len(wsArgs.pool)) =>
       /\ Len(wsResult) = wsArgs.count
       /\ Range(wsResult) \subseteq Range(wsArgs.pool)
       /\ Cardinality(used) = wsArgs.count
       /\ \A i, j \in 1..Len(wsResult) : i # j => wsResult[i] # wsResult[j]

\* two of three cards were returned, the last card of the pool first, with
\* stats in the store
C6_Witness ==
  /\ wsPc = "done"
  /\ wsArgs.count = 2
  /\ Len(wsArgs.pool) = 3
  /\ Len(wsResult) = 2
  /\ wsResult[1] = pool[3]
  /\ DOMAIN store # {}

\* C7: weightedSelect(pool, count) with count >= pool.length returns a
\* permutation of the pool (same length, every card exactly once), whatever
\* the random comparator answers, and leaves the pool itself in its order.
C7_SelectAllIsPermutation ==
  (wsPc = "done" /\ wsArgs.count >= Len(wsArgs.pool)) =>
    /\ Len(wsResult) = Len(wsArgs.pool)
    /\ \A c \in Cards : CountOf(wsResult, c) = CountOf(wsArgs.pool, c)
    /\ pool = wsArgs.pool

\* a pool of three cards came back whole in another order
C7_Witness ==
  /\ wsPc = "done"
  /\ wsArgs.count = 3
  /\ Len(wsArgs.pool) = 3
  /\ Len(wsResult) = 3
  /\ wsResult # wsArgs.pool
  /\ pool = wsArgs.pool

\* C8: in the output of sortForUnitMode every card without stored stats
\* comes after every card with stored stats.
C8_UnseenCardsLast ==
  \A i, j \in 1..Len(unitCards) :
    (unitCards[i] \notin DOMAIN store /\ unitCards[j] \in DOMAIN store)
      => j < i

\* a deck of three cards that began with an unseen card and ended with a
\* rated one was sorted
C8_Witness ==
  /\ Len(unitCards) = 3
  /\ pool[1] \notin DOMAIN store
  /\ pool[3] \in DOMAIN store
  /\ unitCards # pool

\* -------------------------------------------------------- summary claims
\* C9: sessionSummary(results) returns total = the length of results,
\* correct = the number of results rated 3 or 4, again + hard + good + easy
\* = total, pct = 0 when total = 0 and pct = round(100 x correct / total)
\* otherwise, so 0 <= pct <= 100.
C9_SummaryCounts ==
  summary # NoSummary =>
    LET nCorrect == Cardinality({i \in 1..Len(results) :
                                   results[i].rating \in {3, 4}})
    IN  /\ summary.total = Len(results)
        /\ summary.correct = nCorrect
        /\ summary.again + summary.hard + summary.good + summary.easy
             = summary.total
        /\ summary.total = 0 => summary.pct = 0
        /\ summary.total > 0 =>
             /\ 200 * nCorrect - Len(results) < 2 * Len(results) * summary.pct
             /\ 2 * Len(results) * summary.pct <= 200 * nCorrect + Len(results)
        /\ 0 <= summary.pct
        /\ summary.pct <= 100

\* a summary of eight results in mixed order whose percentage is an exact
\* half before rounding (5 of 8 is 62.5)
C9_Witness ==
  /\ summary # NoSummary
  /\ summary.total = 8
  /\ summary.correct = 5
  /\ summary.pct = 63
  /\ results[1].rating = 4
  /\ results[2].rating = 1
  /\ results[8].rating = 3

\* C10: on completion of a blind tier, passed holds exactly when
\* correctCount / n >= tier.threshold in exact arithmetic, n being the number
\* of cards rated in the tier; a fraction equal to the threshold passes.
\* For every tier and every n from 1 to the tier's cardCount.
C10_PassRuleExact ==
  outcome # NoOutcome =>
    LET n == Len(results)
        correctCount == Cardinality({i \in 1..n : results[i].rating \in {3, 4}})
    IN  outcome.passed <=>
          (100 * correctCount >= BLINDS[blindIndex + 1].threshold * n)

\* the last tier played with all 30 cards and passed exactly on the
\* threshold: 24 of 30 is 0.80
C10_Witness ==
  /\ outcome # NoOutcome
  /\ blindIndex = 2
  /\ Len(results) = 30
  /\ outcome.summary.correct = 24
  /\ outcome.passed

\* -------------------------------------------------------- session claims
\* C11: when the timeout of the last card of a blind tier runs
\* handleBlindComplete, then, with passed taken from the ratings of that card
\* set against the threshold of the current tier: a passed tier that is not
\* the last one leads to blind-intro with the tier index one higher and with
\* a card set that weightedSelect can return for the full pool; a failed
\* tier or the last tier leads to round-over with the tier index unchanged.
C11_TierCompletion ==
  [][(TimeoutComplete /\ mode = "random") =>
       LET out == blindOutcome(blindIndex, Head(timers).newResults)
       IN  IF out.passed /\ blindIndex < Len(BLINDS) - 1
             THEN /\ phase' = "blind-intro"
                  /\ blindIndex' = blindIndex + 1
                  /\ blindCards' \in
                       weightedSelect(allCards,
                                      BLINDS[blindIndex + 2].cardCount,
                                      store, now)
             ELSE /\ phase' = "round-over"
                  /\ blindIndex' = blindIndex]_vars

\* C12: a round starts where tier 0 is entered; in every round-over state
\* the score is the sum of the earned of the tiers completed in the round
C12_ScoreIsSumOfEarned ==
  phase = "round-over" => score = SumSeq(roundEarned)

\* the round-over screen: the number of blinds reached and the three
\* headlines it chooses from
reachedBlind == blindIndex + 1
roundOverLabel ==
  IF roundPassed /\ reachedBlind >= Len(BLINDS) THEN "Full Run Complete!"
  ELSE IF roundPassed THEN "Passed"
  ELSE "Failed"

\* C13: no round-over state has the pass flag set while the tier index is
\* not the last one, so that "passed" is never shown without the full
\* ladder being cleared
C13_NoPassedBelowLastTier ==
  phase = "round-over" => roundOverLabel # "Passed"

\* C14: in unit mode the results screen is entered only by the timeout of
\* the last card of a pass; the deck of the pass having N cards, N ratings
\* were made in the pass, the result list then has N entries and its
\* summary has total N; the page is never in blind-intro or round-over
C14_UnitPassEndsInResults ==
  [][mode = "unit" =>
       /\ phase' \notin {"blind-intro", "round-over"}
       /\ (phase # "results" /\ phase' = "results") =>
            /\ TimeoutComplete
            /\ Len(Head(timers).newResults) = Len(Head(timers).cards)
            /\ sessionResults' = Head(timers).newResults
            /\ sessionSummary(sessionResults').total
                 = Len(Head(timers).cards)]_vars

\* a 3-card deck no card of which was seen before got three ratings of 3:
\* the summary of the results screen is correct 3, total 3, pct 100
C14_Witness ==
  /\ mode = "unit"
  /\ phase = "results"
  /\ Len(unitCards) = 3
  /\ Len(sessionResults) = 3
  /\ \A i \in 1..3 : /\ sessionResults[i].rating = 3
                     /\ applied[sessionResults[i].cardId] = <<3>>
  /\ sessionSummary(sessionResults).correct = 3
  /\ sessionSummary(sessionResults).total = 3
  /\ sessionSummary(sessionResults).pct = 100

\* the results of the player are the ratings of the cards before the
\* current one, in order; while the advance delay runs, one timeout of the
\* player is pending and holds the rating of the current card
LiveTimers == {i \in 1..Len(timers) : timers[i].live}
InOrder ==
  /\ Len(results) = index
  /\ index <= Len(cards)
  /\ \A i \in 1..Len(results) : results[i].cardId = cards[i]
  /\ IF animating
       THEN /\ index < Len(cards)
            /\ \E i \in 1..Len(timers) :
                 /\ LiveTimers = {i}
                 /\ timers[i].index = index
                 /\ Len(timers[i].newResults) = index + 1
                 /\ SubSeq(timers[i].newResults, 1, index) = results
                 /\ timers[i].newResults[index + 1].cardId = cards[index + 1]
       ELSE LiveTimers = {}

C16_NewRoundResets ==
  [][(handleReplay /\ phase = "round-over") =>
       /\ score' = 0
       /\ blindIndex' = 0
       /\ sessionResults' = << >>
       /\ results' = << >>
       /\ blindCards' \in weightedSelect(allCards, BLINDS[1].cardCount,
                                         store, now)
       /\ phase' = "blind-intro"
       /\ store' = store]_vars

\* New Round was pressed after the full ladder was cleared with one load:
\* tier 0 is entered again, the three ratings of the ladder are stored
C16_Witness ==
  /\ loadCalls = 1
  /\ phase = "blind-intro"
  /\ blindIndex = 0
  /\ roundPassed
  /\ score = 0
  /\ sessionResults = << >>
  /\ TotalReviews = 3
  /\ DOMAIN store # {}

\* C17: the page is never in blind-intro or in playing with an empty card
\* set: a load that finds no card ends in error
C17_NoEmptyCardSet ==
  phase \in {"blind-intro", "playing"} => cards # << >>

\* C18: while the page is on screen the phase changes only along the edges
\* of the session state machine; in particular error is never left, and the
\* only phase a completing load leaves is loading
Edges ==
  {<<"loading", "error">>, <<"loading", "blind-intro">>,
   <<"loading", "playing">>, <<"blind-intro", "playing">>,
   <<"playing", "blind-intro">>, <<"playing", "round-over">>,
   <<"playing", "results">>, <<"results", "playing">>,
   <<"round-over", "blind-intro">>}
C18_PhaseEdges ==
  [][mounted' => (phase' = phase \/ <<phase, phase'>> \in Edges)]_vars

\* C19: a stored record changes only when its card is rated and is then
\* the record that rating wrote; every other step, leaving the page and
\* the restarts of a tier or pass among them, leaves the store as it is; the
\* score grows only when the timeout of the last card of a card set runs,
\* all cards of the set being rated
C19_WritesStayScoreOnlyOnCompletion ==
  [][/\ \A c \in DOMAIN store :
          /\ c \in DOMAIN store'
          /\ store'[c] # store[c] =>
               /\ applied'[c] # applied[c]
               /\ store'[c] = call'.result
     /\ applied' = applied => store' = store
     /\ score' > score =>
          /\ TimeoutComplete
          /\ Len(Head(timers).newResults) = Len(Head(timers).cards)]_vars

\* the page was left in the first tier of the only round, after its first
\* card was rated 3 or 4 and before the tier completed (no tier has earned
\* anything): the card's record is in the store
C19_Witness ==
  /\ ~ mounted
  /\ mode = "random"
  /\ loadCalls = 1
  /\ roundEarned = << >>
  /\ TotalReviews = 1
  /\ call.rating >= 3
  /\ \A c \in Cards :
       applied[c] # << >> =>
         /\ c \in DOMAIN store
         /\ store[c].reviews = Len(applied[c])

\* C20: whatever storage call fails in a rating, the rating starts the
\* advance with its result appended, and the stored records of the other
\* cards stay as they are
C20_FailureIsLocal ==
  [][applied' # applied =>
       /\ animating'
       /\ timers' # << >>
       /\ timers'[Len(timers')].newResults
            = Append(results, [cardId |-> cards[index + 1],
                               rating |-> call'.rating])
       /\ \A c \in DOMAIN store :
            c # cards[index + 1] =>
              /\ c \in DOMAIN store'
              /\ store'[c] = store[c]]_vars

\* -------------------------------------------------- stored-record actions
\* applyRating on a record as the store can hold it.  The store is a blob
\* of localStorage that getCardStats hands on as it is parsed: a record in
\* it need not be one that applyRating returned.
StoredRecords ==
  [id : {SchedCard}, ease : {100, MIN_EASE, DEFAULT_EASE, 300, 350},
   interval : {1, 6, 15}, due : {0}, reviews : 0..3, lapses : {0, 1},
   lastRating : {3}]

ApplyInit ==
  /\ now \in 0..MaxNow
  /\ \E r \in StoredRecords : store = [c \in {SchedCard} |-> r]
  /\ applied = [c \in Cards |-> << >>]
  /\ call = NoCall
  /\ results = << >>
  /\ summary = NoSummary
  /\ outcome = NoOutcome
  /\ wsPc = "idle"
  /\ wsArgs = NoArgs
  /\ weights = << >>
  /\ totalWeight = 0
  /\ selected = << >>
  /\ used = {}
  /\ wsResult = << >>
  /\ unitCards = << >>
  /\ PageClosed
  /\ pool = << >>
  /\ blindIndex = 0

\* one rating of the stored card
ApplyRate ==
  /\ call = NoCall
  /\ \E rating \in Ratings, tie \in {0, 1} : Rate(SchedCard, rating, tie)
  /\ UNCHANGED now
  /\ UNCHANGED selVars
  /\ UNCHANGED tierVars
  /\ UNCHANGED pageVars

ApplyNext == ApplyRate

ApplySpec == ApplyInit /\ [][ApplyNext]_vars

\* ------------------------------------------------- stored-record claims
\* C21: whatever record is stored and whatever the rating, the ease of the
\* record applyRating returns lies between 1.3 and 3.0
C21_EaseClampedOnEveryUpdate ==
  call # NoCall =>
    /\ call.result.ease >= MIN_EASE
    /\ call.result.ease <= 300

remainingWeight ==
  SumSeq([i \in 1..Len(weights) |-> IF i \in used THEN 0 ELSE weights[i]])

\* C23: while the selection loop runs, a draw is taken below the total
\* weight of the cards not chosen so far, and so every value drawn chooses
\* a card
C23_EveryDrawSelects ==
  (wsPc = "loop" /\ Len(selected) < wsArgs.count
     /\ Cardinality(used) < Len(pool)) =>
    /\ totalWeight = remainingWeight
    /\ \A level \in 0..(RandLevels - 1) :
         walk(1, level * totalWeight, weights, used) # 0

\* the due date the comparator of sortForUnitMode uses for a stored record
effectiveDue(c) == IF store[c].due <= now THEN 0 ELSE store[c].due

\* C24: sortForUnitMode returns a permutation of its input, leaves the input
\* array as it was, and among the cards with stored stats orders by
\* effective due ascending (0 for a card that is due), then by ease ascending
C24_SortByEffectiveDueThenEase ==
  [][(unitCards = << >> /\ unitCards' # << >>) =>
       /\ pool' = pool
       /\ Len(unitCards') = Len(pool)
       /\ \A c \in Cards :
            Cardinality({i \in 1..Len(unitCards') : unitCards'[i] = c})
              = Cardinality({i \in 1..Len(pool) : pool[i] = c})
       /\ \A i, j \in 1..Len(unitCards') :
            (i < j /\ unitCards'[i] \in DOMAIN store
                   /\ unitCards'[j] \in DOMAIN store) =>
              \/ effectiveDue(unitCards'[i]) < effectiveDue(unitCards'[j])
              \/ /\ effectiveDue(unitCards'[i]) = effectiveDue(unitCards'[j])
                 /\ store[unitCards'[i]].ease <= store[unitCards'[j]].ease]_vars

\* a deck whose first two cards have stored stats and are both due, the
\* harder one second, was sorted: the harder card moved first
C24_Witness ==
  /\ Len(unitCards) = 3
  /\ \A i \in 1..2 : pool[i] \in DOMAIN store
  /\ effectiveDue(pool[1]) = 0
  /\ effectiveDue(pool[2]) = 0
  /\ store[pool[2]].ease < store[pool[1]].ease
  /\ unitCards[1] = pool[2]
  /\ unitCards[2] = pool[1]

\* ---------------------------------------------------- pass-fraction claims
\* C25: on completion of a blind tier, passed holds exactly when
\* correctCount / tier.cardCount >= tier.threshold, also when fewer than
\* tier.cardCount cards were played
C25_PassFractionOverCardCount ==
  outcome # NoOutcome =>
    (outcome.passed <=>
       (100 * outcome.summary.correct
          >= BLINDS[blindIndex + 1].threshold
               * BLINDS[blindIndex + 1].cardCount))

\* C25, amended: when fewer than tier.cardCount cards were played, passed
\* holds exactly when correctCount / (number of cards played) >=
\* tier.threshold
C25_PassFractionOverCardsPlayed ==
  (outcome # NoOutcome /\ Len(results) < BLINDS[blindIndex + 1].cardCount) =>
    (outcome.passed <=>
       (100 * outcome.summary.correct
          >= BLINDS[blindIndex + 1].threshold * Len(results)))

\* the first tier played with the 3 cards of a small pool, all of them
\* correct: 3 of 3 passes, 3 of 10 would not
C25_Witness ==
  /\ outcome # NoOutcome
  /\ blindIndex = 0
  /\ Len(results) = 3
  /\ outcome.summary.correct = 3
  /\ outcome.passed

\* ------------------------------------------- sessions sharing the store
\* the sessions (browser tabs) that are open on the same stats store
MaxTabs == 2
\* the ratings made in all the sessions together
MaxTabRatings == 3

\* every session's deck player starts at the first card of its card
\* sequence; rated is history: the cards this session has rated
TabInit ==
  /\ StartOfDay
  /\ mounted = FALSE
  /\ mode = "unit"
  /\ activeRepo = "none"
  /\ InitialPageState
  /\ loads = 0
  /\ loadCalls = 0
  /\ timers = << >>
  /\ roundEarned = << >>
  /\ pool = << >>
  /\ blindIndex = 0
  /\ tabs \in [1..MaxTabs -> [cards : Decks, index : {0}, rated : {<< >>}]]

TabsRated == SumSeq([t \in 1..Len(tabs) |-> Len(tabs[t].rated)])

\* handleRate in session t: the read, the update and the save of the rated
\* card's record run to completion, then the player advances
TabRate(t, rating, tie) ==
  /\ TabsRated < MaxTabRatings
  /\ tabs[t].index < Len(tabs[t].cards)
  /\ Rate(tabs[t].cards[tabs[t].index + 1], rating, tie)
  /\ tabs' = [tabs EXCEPT ![t].index = @ + 1,
                          ![t].rated =
                            Append(@, tabs[t].cards[tabs[t].index + 1])]
  /\ UNCHANGED <<now, results, summary, blindIndex, outcome>>
  /\ UNCHANGED selVars
  /\ UNCHANGED pageVars

\* "study again" in session t after its last card: a new pass over the
\* deck as sortForUnitMode orders it now
TabAgain(t) ==
  /\ tabs[t].index = Len(tabs[t].cards)
  /\ tabs' = [tabs EXCEPT ![t].index = 0,
                          ![t].cards = sortForUnitMode(@, store, now)]
  /\ UNCHANGED <<results, summary, blindIndex, outcome>>
  /\ UNCHANGED schedVars
  /\ UNCHANGED selVars
  /\ UNCHANGED pageVars

TabNext ==
  \/ \E t \in 1..MaxTabs, rating \in Ratings, tie \in {0, 1} :
       TabRate(t, rating, tie)
  \/ \E t \in 1..MaxTabs : TabAgain(t)

TabSpec == TabInit /\ [][TabNext]_vars

\* how often card c was rated, all sessions of ts together
RatedIn(ts, c) ==
  SumSeq([t \in 1..Len(ts) |->
            Cardinality({k \in 1..Len(ts[t].rated) : ts[t].rated[k] = c})])

\* C26: with sessions sharing the store and every rating's read, update
\* and save being one step, a rating changes the rated card's stored entry
\* alone, and after it every card's stored reviews is the number of ratings
\* the card has received in all sessions together
C26_NoLostUpdate ==
  [][(store' # store \/ tabs' # tabs) =>
       /\ \A d \in Cards \ {call'.stats.id} :
            /\ d \in DOMAIN store' <=> d \in DOMAIN store
            /\ d \in DOMAIN store => store'[d] = store[d]
       /\ \A d \in Cards :
            RatedIn(tabs', d) =
              IF d \in DOMAIN store' THEN store'[d].reviews ELSE 0]_vars

\* two sessions rated the same card, one after the other, and the first
\* session then rated its next card
C26_Witness ==
  /\ Len(tabs) >= 2
  /\ tabs[1].rated = <<"c1", "c2">>
  /\ tabs[2].rated = <<"c1">>
  /\ store["c1"].reviews = 2
  /\ store["c2"].reviews = 1

\* ------------------------------------------------------ tier-index claims
\* C27: in a random-mode session the tier index stays within the ladder,
\* it changes only by +1 when a tier that is not the last one was passed or
\* to 0 (load, new round), and the card set of the current tier has
\* min(tier.cardCount, pool size) cards, all of them cards of the full pool
C27_TierIndexAndCardSet ==
  [][mode' = "random" =>
       /\ blindIndex' \in 0..(Len(BLINDS) - 1)
       /\ blindIndex' # blindIndex =>
            \/ blindIndex' = 0
            \/ /\ blindIndex' = blindIndex + 1
               /\ blindIndex < Len(BLINDS) - 1
               /\ roundPassed'
       /\ Len(blindCards') =
            Min(BLINDS[blindIndex' + 1].cardCount, Len(allCards'))
       /\ Range(blindCards') \subseteq Range(allCards')]_vars

\* C28: whenever a random-mode session is in blind-intro with tier index 0,
\* by a first load, by a load re-run or by New Round, the cumulative score
\* is 0 and the result list is empty
C28_TierZeroStartsClean ==
  (mode = "random" /\ phase = "blind-intro" /\ blindIndex = 0) =>
    (score = 0 /\ sessionResults = << >>)

\* ------------------------------------------------- the round to its end
\* One round of a session of one load, the provider having its repository
\* when the page is opened: the user stays on the page and plays on.  The
\* round ends by itself (after the last card of a unit deck, after at most
\* three tiers), so the ratings need no bound here.
LiveInit ==
  /\ Init
  /\ activeRepo = "r1"

\* the ratings of the round: a wrong answer and a right one
LiveRatings == {1, 3}

LiveRate == \E rating \in LiveRatings : handleRate(rating, 1, NoFault)

LiveNext ==
  \/ MountEffect
  \/ LoadSettle
  \/ Start
  \/ \E f \in BOOLEAN : Flip(f)
  \/ LiveRate
  \/ TimeoutNextCard
  \/ TimeoutComplete

\* The effect, the network answer and the 220 ms timeouts run when they are
\* due.  The user presses Start, turns a card that shows its front, and
\* rates: the card can be turned back before it is rated, so the rating is
\* not enabled without interruption and gets strong fairness.
LiveSpec ==
  /\ LiveInit
  /\ [][LiveNext]_vars
  /\ WF_vars(MountEffect)
  /\ WF_vars(LoadSettle)
  /\ WF_vars(Start)
  /\ WF_vars(Flip(TRUE))
  /\ SF_vars(LiveRate)
  /\ WF_vars(TimeoutNextCard)
  /\ WF_vars(TimeoutComplete)

\* C29: once loading has succeeded, a unit session reaches results and a
\* random round reaches round-over, having completed at most as many tiers
\* as the ladder has
C29_RoundEnds ==
  /\ (mode = "unit" /\ phase = "playing") ~> (phase = "results")
  /\ (mode = "random" /\ phase = "blind-intro") ~> (phase = "round-over")
  /\ [](phase = "round-over" => Len(roundEarned) <= Len(BLINDS))

\* ------------------------------------------- the selection loop to its end
\* weightedSelect on the stores that ratings leave behind, the random
\* source being fair: every value it can give is drawn again and again, so
\* a draw that would choose a card is not put off for ever.  A draw that
\* chooses no card leaves the loop where it was.
DrawNext ==
  \/ SelRate
  \/ \E count \in 1..MaxCount : WSCall(count)
  \/ \E level \in 0..(RandLevels - 1) : WSDraw(level)
  \/ WSReturn

DrawSpec ==
  /\ SelInit
  /\ [][DrawNext]_vars
  /\ \A level \in 0..(RandLevels - 1) : WF_vars(WSDraw(level))
  /\ WF_vars(WSReturn)

\* C30: a call of weightedSelect on a non-empty pool comes to its end, the
\* loop having chosen min(count, pool.length) cards, although some values
\* drawn choose no card
C30_SelectionTerminates ==
  /\ (wsPc = "loop") ~>
       (wsPc = "done" /\ Len(wsResult) = Min(wsArgs.count, Len(wsArgs.pool)))
  /\ [](wsPc = "done" =>
          Len(wsResult) = Min(wsArgs.count, Len(wsArgs.pool)))

\* the loop returned two of three cards, and with the first card chosen
\* one of the values the random source can give chose no card
C30_Witness ==
  /\ wsPc = "done"
  /\ Len(wsArgs.pool) = 3
  /\ wsArgs.count = 2
  /\ Len(wsResult) = 2
  /\ \E level \in 0..(RandLevels - 1) :
       walk(1, level * totalWeight, weights, {1}) = 0

====
